---- MODULE Spec2Model ----
(***************************************************************************)
(* User CRUD service (index.js, db.js): an Express application whose five  *)
(* /users routes call a Mongoose model, behind an express-rate-limit       *)
(* middleware, started next to a connection attempt that is not awaited.   *)
(*                                                                         *)
(* Text values (names, e-mail addresses, raw query parameters) are         *)
(* sequences of one-character strings, so that parsing and validation are  *)
(* computed.  A stored identifier (an ObjectId) is a natural number; the   *)
(* path parameter of a request is an integer, where a negative one stands  *)
(* for a text that is no ObjectId, such as "nonexistent-id".               *)
(***************************************************************************)
EXTENDS Integers, Sequences, FiniteSets, TLC

VARIABLES
  proc,     \* "running" | "exited": the node process
  conn,     \* "connecting" | "connected": mongoose.connect's promise
  store,    \* the users collection, in natural (insertion) order
  nextId,   \* the next ObjectId the driver generates
  hits,     \* the rate limiter's counter of each caller address
  req,      \* the requests in flight, one per slot
  sent,     \* history: requests of each caller in its current window
  created,  \* history: id -> the record its Create answered with 201
  touched,  \* history: ids an Update's save or a Delete was applied to
  deleted   \* history: ids a Delete answered 204 for

vars == <<proc, conn, store, nextId, hits, req, sent, created, touched, deleted>>

----------------------------------------------------------------------------
(* Bounds of the model *)

\* Records ever created; the same where requests race; requests of the
\* caller "c1" in one window; requests past the limiter's threshold.
MaxIds == 2
RaceIds == 1
MaxBurst == 1
MaxOver == 2

\* Two requests in flight: the races are between two requests.
Slots == {1, 2}
Callers == {"c1", "c2"}

----------------------------------------------------------------------------
(* Values the callers send *)

Empty == << >>
Ann == <<"A">>
New == <<"N">>
AnnMail == <<"a", "@", "b", ".", "c", "o">>
NewMail == <<"n", "@", "b", ".", "c", "o">>
BadMail == <<"n", "o">>

\* A JSON body with the fields that are present.
MkBody(hasName, name, hasEmail, email) ==
  [f \in (IF hasName THEN {"name"} ELSE {}) \cup (IF hasEmail THEN {"email"} ELSE {})
     |-> IF f = "name" THEN name ELSE email]

CreateBodies ==
  {MkBody(hn, n, he, e) : hn \in BOOLEAN, n \in {Empty, Ann},
                          he \in BOOLEAN, e \in {BadMail, AnnMail}}

UpdateBodies ==
  {MkBody(hn, n, he, e) : hn \in BOOLEAN, n \in {Empty, New},
                          he \in BOOLEAN, e \in {Empty, NewMail}}

NoBody == MkBody(FALSE, Empty, FALSE, Empty)

\* A query string with the parameters that are present.
MkQuery(hasPage, page, hasLimit, limit) ==
  [f \in (IF hasPage THEN {"page"} ELSE {}) \cup (IF hasLimit THEN {"limit"} ELSE {})
     |-> IF f = "page" THEN page ELSE limit]

RawNumbers == {<<"x">>, <<"0">>, <<"-", "1">>, <<"1">>, <<"2">>}

Queries ==
  {MkQuery(hp, p, hl, l) : hp \in BOOLEAN, p \in RawNumbers,
                           hl \in BOOLEAN, l \in RawNumbers}

NoQuery == MkQuery(FALSE, Empty, FALSE, Empty)

\* Path parameters: 0 is a well-formed ObjectId no record ever had, -1 the
\* text "nonexistent-id"; the others are ids the service has handed out.
PathIds == (-1)..MaxIds

----------------------------------------------------------------------------
(* Pure functions *)

Digits == {"0", "1", "2", "3", "4", "5", "6", "7", "8", "9"}

DigitVal(c) ==
  CASE c = "0" -> 0 [] c = "1" -> 1 [] c = "2" -> 2 [] c = "3" -> 3 [] c = "4" -> 4
    [] c = "5" -> 5 [] c = "6" -> 6 [] c = "7" -> 7 [] c = "8" -> 8 [] c = "9" -> 9

RECURSIVE DigitPrefix(_, _, _)
DigitPrefix(s, i, acc) ==
  IF i > Len(s) \/ s[i] \notin Digits THEN acc
  ELSE DigitPrefix(s, i + 1, acc * 10 + DigitVal(s[i]))

\* parseInt of a query parameter (undefined when absent): an optional sign,
\* then the longest prefix of digits; NaN when there is none.
parseInt(q, f) ==
  IF f \notin DOMAIN q THEN [nan |-> TRUE, val |-> 0]
  ELSE LET s == q[f]
           signed == Len(s) > 0 /\ s[1] \in {"-", "+"}
           start == IF signed THEN 2 ELSE 1
           mag == DigitPrefix(s, start, 0)
       IN IF start > Len(s) \/ s[start] \notin Digits
          THEN [nan |-> TRUE, val |-> 0]
          ELSE [nan |-> FALSE, val |-> IF signed /\ s[1] = "-" THEN 0 - mag ELSE mag]

\* parseInt(...) || dflt: NaN and 0 are falsy.
OrDefault(p, dflt) == IF p.nan \/ p.val = 0 THEN dflt ELSE p.val

DefaultPage == 1
DefaultLimit == 10

PageOf(q) == OrDefault(parseInt(q, "page"), DefaultPage)
LimitOf(q) == OrDefault(parseInt(q, "limit"), DefaultLimit)

\* A skip that starts after the requested page.
SkipFromPage(page, limit) == page * limit

\* (page - 1) * limit: the records before the page.
Skip(page, limit) == (page - 1) * limit

\* Math.ceil(a / b) for b # 0.
CeilDiv(a, b) ==
  IF b > 0 THEN (a + b - 1) \div b ELSE 0 - (a \div (0 - b))

Abs(n) == IF n < 0 THEN 0 - n ELSE n
Min(a, b) == IF a < b THEN a ELSE b

\* isEmail: one "@" with a local part before it and, after it, a domain
\* whose last dot follows a label and is followed by a top-level domain of
\* at least two characters.
isEmail(s) ==
  \E i \in 1..Len(s) :
    /\ s[i] = "@"
    /\ \A j \in 1..Len(s) : s[j] = "@" => j = i
    /\ i > 1
    /\ \E k \in (i + 2)..(Len(s) - 2) :
         /\ s[k] = "."
         /\ \A j \in (k + 1)..Len(s) : s[j] # "."

\* A value as express-validator reads it: an absent field is the empty text.
FieldText(body, f) == IF f \in DOMAIN body THEN body[f] ELSE Empty

\* A JavaScript truthy test of a body field: undefined and "" are falsy.
Truthy(body, f) == f \in DOMAIN body /\ body[f] # Empty

----------------------------------------------------------------------------
(* The rate limiter's configuration and the handlers' fixed messages *)

max == 100
RateMessage == "Too many requests, please try again later."

\* A limiter that rejects from the max-th request on.
RejectsAtMax(current) == current >= max

\* express-rate-limit rejects a request whose incremented count exceeds max.
Rejects(current) == current > max

FailMessage(op) ==
  CASE op = "List" -> "Failed to fetch users"
    [] op = "GetById" -> "Error retrieving user"
    [] op = "Create" -> "Error saving user"
    [] op = "Update" -> "Error updating user"
    [] op = "Delete" -> "Error deleting user"

NotFoundMessage == "User not found"

----------------------------------------------------------------------------
(* The collection *)

Fields == {"name", "email"}

NoDoc == [id |-> -2, name |-> Empty, email |-> Empty]

Has(s, id) == \E i \in 1..Len(s) : s[i].id = id

\* A lookup that ignores the id: the first record, or null.
findFirst(s, id) == IF s # << >> THEN s[1] ELSE NoDoc

\* User.findById: the record with the id, or null.
findById(s, id) ==
  IF Has(s, id) THEN s[CHOOSE i \in 1..Len(s) : s[i].id = id] ELSE NoDoc

\* Casting a path parameter to the _id type: a text that is no ObjectId
\* makes the query reject with a CastError.
IsObjectId(id) == id >= 0

\* User.find().skip(skip).limit(limit), for skip >= 0.  The driver sends a
\* negative limit as its absolute value.
find(s, skip, limit) == SubSeq(s, skip + 1, Min(Len(s), skip + Abs(limit)))

\* newUser.save(): the insert of a new document.
insert(s, doc) == Append(s, doc)

\* A save that writes the whole loaded document over the record.
saveWhole(s, doc, modified) ==
  [i \in 1..Len(s) |-> IF s[i].id = doc.id THEN doc ELSE s[i]]

\* A save that inserts the document when no record has its _id.
saveUpsert(s, doc, modified) ==
  IF Has(s, doc.id)
  THEN [i \in 1..Len(s) |->
          IF s[i].id = doc.id
          THEN [f \in DOMAIN s[i] |-> IF f \in modified THEN doc[f] ELSE s[i][f]]
          ELSE s[i]]
  ELSE Append(s, doc)

\* user.save() of a loaded document: an update of the record with the
\* document's _id that sets the modified paths only; no record, no effect.
save(s, doc, modified) ==
  [i \in 1..Len(s) |->
     IF s[i].id = doc.id
     THEN [f \in DOMAIN s[i] |-> IF f \in modified THEN doc[f] ELSE s[i][f]]
     ELSE s[i]]

RECURSIVE Remove(_, _)
Remove(s, id) ==
  IF s = << >> THEN << >>
  ELSE IF Head(s).id = id THEN Remove(Tail(s), id)
  ELSE <<Head(s)>> \o Remove(Tail(s), id)

\* User.findByIdAndDelete.
findByIdAndDelete(s, id) == Remove(s, id)

\* user.name = name || user.name; user.email = email || user.email.
Assign(doc, body) ==
  [doc EXCEPT !.name = IF Truthy(body, "name") THEN body.name ELSE @,
              !.email = IF Truthy(body, "email") THEN body.email ELSE @]

\* The paths Mongoose marks modified: those set to a value that differs
\* from the loaded one.
ModifiedPaths(loaded, doc) == {f \in Fields : doc[f] # loaded[f]}

----------------------------------------------------------------------------
(* Validation of a Create body *)

EmailError == [param |-> "email", msg |-> "Please provide a valid email"]
NameError == [param |-> "name", msg |-> "Name is required"]

\* A validation that stops at the first failing field.
ValidationErrorsFirst(body) ==
  IF ~isEmail(FieldText(body, "email")) THEN <<EmailError>>
  ELSE IF FieldText(body, "name") = Empty THEN <<NameError>>
  ELSE << >>

\* Both chains run; validationResult(req).array() lists their errors.
ValidationErrors(body) ==
  (IF isEmail(FieldText(body, "email")) THEN << >> ELSE <<EmailError>>)
  \o (IF FieldText(body, "name") # Empty THEN << >> ELSE <<NameError>>)

----------------------------------------------------------------------------
(* Requests *)

Idle ==
  [pc |-> "idle", ip |-> "c1", op |-> "none", id |-> 0, body |-> NoBody,
   q |-> NoQuery, page |-> 0, limit |-> 0, doc |-> NoDoc, modified |-> {},
   status |-> 0, msg |-> "", out |-> << >>, err |-> "",
   \* history of the request, read by the properties only
   nth |-> 0, calls |-> 0, wrote |-> FALSE, afterDel |-> FALSE, fresh |-> FALSE,
   late |-> FALSE, pre |-> NoDoc, post |-> NoDoc,
   seen |-> << >>, counted |-> << >>]

\* res.status(status).json(...) or .send(...): the request is answered.
Respond(rq, status, msg, out) ==
  [rq EXCEPT !.pc = "done", !.status = status, !.msg = msg, !.out = out,
             !.doc = NoDoc, !.modified = {}]

\* A catch block that answers with the error's own text.
CatchLeaks(rq, e) ==
  [Respond(rq, 500, e, << >>) EXCEPT !.err = e]

\* A handler's catch block: 500 with the operation's message, whatever the
\* error e was.
Catch(rq, e) ==
  [Respond(rq, 500, FailMessage(rq.op), << >>) EXCEPT !.err = e]

\* new User({ name, email }): a document with a fresh _id.
NewUser(id, body) == [id |-> id, name |-> body.name, email |-> body.email]

\* The synchronous start of a route handler, up to its first await.
Dispatch(rq) ==
  CASE rq.op = "List" ->
         [rq EXCEPT !.page = PageOf(rq.q), !.limit = LimitOf(rq.q),
                    !.pc = "find", !.calls = 1]
    [] rq.op = "GetById" ->
         [rq EXCEPT !.pc = "findById", !.calls = 1, !.afterDel = rq.id \in deleted]
    [] rq.op = "Create" ->
         IF ValidationErrors(rq.body) # << >>
         THEN Respond(rq, 400, "", ValidationErrors(rq.body))
         ELSE [rq EXCEPT !.doc = NewUser(nextId, rq.body),
                         !.pc = "insert", !.calls = 1]
    [] rq.op = "Update" -> [rq EXCEPT !.pc = "findById", !.calls = 1]
    [] rq.op = "Delete" -> [rq EXCEPT !.pc = "delete", !.calls = 1]

\* A request arrives: the limiter counts it and either rejects it or passes
\* it on to its route handler.
Request(r, ip, op, id, body, q) ==
  /\ proc = "running"
  /\ req[r].pc = "idle"
  /\ LET current == hits[ip] + 1
         rq == [Idle EXCEPT !.ip = ip, !.op = op, !.id = id, !.body = body,
                            !.q = q, !.nth = sent[ip] + 1]
     IN /\ hits' = [hits EXCEPT ![ip] = current]
        /\ IF Rejects(current)
           THEN /\ req' = [req EXCEPT ![r] = Respond(rq, 429, RateMessage, << >>)]
                /\ nextId' = nextId
           ELSE /\ req' = [req EXCEPT ![r] = Dispatch(rq)]
                /\ nextId' = IF Dispatch(rq).pc = "insert" THEN nextId + 1 ELSE nextId
  /\ sent' = [sent EXCEPT ![ip] = @ + 1]
  /\ UNCHANGED <<proc, conn, store, created, touched, deleted>>

List(r, ip, q) == Request(r, ip, "List", 0, NoBody, q)
GetById(r, ip, id) == Request(r, ip, "GetById", id, NoBody, NoQuery)
Create(r, ip, body) == nextId <= MaxIds /\ Request(r, ip, "Create", 0, body, NoQuery)
Update(r, ip, id, body) == Request(r, ip, "Update", id, body, NoQuery)
Delete(r, ip, id) == Request(r, ip, "Delete", id, NoBody, NoQuery)

\* A persistence call settles only once the connection is up: until then
\* Mongoose buffers it.
Settles(r, op, pc) ==
  /\ proc = "running"
  /\ conn = "connected"
  /\ req[r].op = op
  /\ req[r].pc = pc

\* List: the find query settles, and the count is requested.
ListFind(r) ==
  /\ Settles(r, "List", "find")
  /\ LET rq == req[r]
         skip == Skip(rq.page, rq.limit)
     IN req' = [req EXCEPT ![r] =
                  IF skip < 0 THEN Catch(rq, "MongoError")
                  ELSE [rq EXCEPT !.out = find(store, skip, rq.limit),
                                  !.pc = "count", !.calls = 2, !.seen = store]]
  /\ UNCHANGED <<proc, conn, store, nextId, hits, sent, created, touched, deleted>>

\* List: countDocuments settles, and the page is answered.
ListCount(r) ==
  /\ Settles(r, "List", "count")
  /\ LET rq == req[r]
         totalUsers == Len(store)
     IN req' = [req EXCEPT ![r] =
                  [Respond(rq, 200, "",
                           [users |-> rq.out,
                            totalPages |-> CeilDiv(totalUsers, rq.limit),
                            currentPage |-> rq.page])
                     EXCEPT !.counted = store]]
  /\ UNCHANGED <<proc, conn, store, nextId, hits, sent, created, touched, deleted>>

\* GetById: findById settles.
GetByIdFind(r) ==
  /\ Settles(r, "GetById", "findById")
  /\ LET rq == req[r]
         user == findById(store, rq.id)
         was == [rq EXCEPT !.fresh = rq.id \in DOMAIN created /\ rq.id \notin touched]
     IN req' = [req EXCEPT ![r] =
                  IF ~IsObjectId(rq.id) THEN Catch(was, "CastError")
                  ELSE IF user = NoDoc THEN Respond(was, 404, NotFoundMessage, << >>)
                  ELSE Respond(was, 200, "", user)]
  /\ UNCHANGED <<proc, conn, store, nextId, hits, sent, created, touched, deleted>>

\* Create: the insert settles.
CreateSave(r) ==
  /\ Settles(r, "Create", "insert")
  /\ LET rq == req[r]
     IN /\ store' = insert(store, rq.doc)
        /\ req' = [req EXCEPT ![r] = [Respond(rq, 201, "", rq.doc) EXCEPT !.wrote = TRUE]]
        /\ created' = [i \in DOMAIN created \cup {rq.doc.id} |->
                         IF i = rq.doc.id THEN rq.doc ELSE created[i]]
  /\ UNCHANGED <<proc, conn, nextId, hits, sent, touched, deleted>>

\* Update: findById settles; the fields are assigned and save is requested.
UpdateFind(r) ==
  /\ Settles(r, "Update", "findById")
  /\ LET rq == req[r]
         user == findById(store, rq.id)
     IN req' = [req EXCEPT ![r] =
                  IF ~IsObjectId(rq.id) THEN Catch(rq, "CastError")
                  ELSE IF user = NoDoc THEN Respond(rq, 404, NotFoundMessage, << >>)
                  ELSE [rq EXCEPT !.doc = Assign(user, rq.body),
                                  !.modified = ModifiedPaths(user, Assign(user, rq.body)),
                                  !.pc = "save", !.calls = 2]]
  /\ UNCHANGED <<proc, conn, store, nextId, hits, sent, created, touched, deleted>>

\* Update: save settles on a record that is still there.
UpdateSave(r) ==
  /\ Settles(r, "Update", "save")
  /\ Has(store, req[r].id)
  /\ LET rq == req[r]
     IN /\ store' = save(store, rq.doc, rq.modified)
        /\ req' = [req EXCEPT ![r] =
                     [Respond(rq, 200, "", rq.doc)
                        EXCEPT !.wrote = store' # store,
                               !.pre = findById(store, rq.id),
                               !.post = findById(store', rq.id)]]
        /\ touched' = touched \cup {rq.id}
  /\ UNCHANGED <<proc, conn, nextId, hits, sent, created, deleted>>

\* Update: save settles after the record was deleted.  The update matches
\* nothing; Mongoose reports that as a DocumentNotFoundError or, in older
\* releases, not at all.
UpdateSaveGone(r) ==
  /\ Settles(r, "Update", "save")
  /\ ~Has(store, req[r].id)
  /\ LET rq == req[r]
     IN /\ store' = save(store, rq.doc, rq.modified)
        /\ \/ req' = [req EXCEPT ![r] =
                        [Catch(rq, "DocumentNotFoundError")
                           EXCEPT !.wrote = store' # store, !.late = TRUE]]
           \/ req' = [req EXCEPT ![r] =
                        [Respond(rq, 200, "", rq.doc)
                           EXCEPT !.wrote = store' # store, !.late = TRUE]]
  /\ UNCHANGED <<proc, conn, nextId, hits, sent, created, touched, deleted>>

\* Delete: findByIdAndDelete settles.
DeleteSettle(r) ==
  /\ Settles(r, "Delete", "delete")
  /\ LET rq == req[r]
     IN IF ~IsObjectId(rq.id)
        THEN /\ req' = [req EXCEPT ![r] = Catch(rq, "CastError")]
             /\ UNCHANGED <<store, touched, deleted>>
        ELSE /\ store' = findByIdAndDelete(store, rq.id)
             /\ req' = [req EXCEPT ![r] =
                          [Respond(rq, 204, "", << >>) EXCEPT !.wrote = store' # store]]
             /\ touched' = touched \cup {rq.id}
             /\ deleted' = deleted \cup {rq.id}
  /\ UNCHANGED <<proc, conn, nextId, hits, sent, created>>

\* The persistence call a request awaits rejects with an I/O error.
StoreFail(r) ==
  /\ proc = "running"
  /\ req[r].pc \in {"find", "count", "findById", "insert", "save", "delete"}
  /\ req' = [req EXCEPT ![r] = Catch(req[r], "MongoError")]
  /\ UNCHANGED <<proc, conn, store, nextId, hits, sent, created, touched, deleted>>

\* The response has been sent; the slot takes the next request.
Release(r) ==
  /\ proc = "running"
  /\ req[r].pc = "done"
  /\ req' = [req EXCEPT ![r] = Idle]
  /\ UNCHANGED <<proc, conn, store, nextId, hits, sent, created, touched, deleted>>

\* The limiter's window of a caller elapses: its count starts again.
WindowElapse(ip) ==
  /\ proc = "running"
  /\ hits[ip] > 0
  /\ hits' = [hits EXCEPT ![ip] = 0]
  /\ sent' = [sent EXCEPT ![ip] = 0]
  /\ UNCHANGED <<proc, conn, store, nextId, req, created, touched, deleted>>

\* connectDB: mongoose.connect resolves.
ConnectOk ==
  /\ proc = "running"
  /\ conn = "connecting"
  /\ conn' = "connected"
  /\ UNCHANGED <<proc, store, nextId, hits, req, sent, created, touched, deleted>>

\* connectDB: mongoose.connect rejects; the catch block exits the process.
ConnectFail ==
  /\ proc = "running"
  /\ conn = "connecting"
  /\ proc' = "exited"
  /\ UNCHANGED <<conn, store, nextId, hits, req, sent, created, touched, deleted>>

----------------------------------------------------------------------------
(* Specifications *)

\* index.js has run to its end: connectDB() is pending, the server listens.
Init ==
  /\ proc = "running"
  /\ conn = "connecting"
  /\ store = << >>
  /\ nextId = 1
  /\ hits = [ip \in Callers |-> 0]
  /\ req = [r \in Slots |-> Idle]
  /\ sent = [ip \in Callers |-> 0]
  /\ created = << >>
  /\ touched = {}
  /\ deleted = {}

\* Ids the callers have learnt from the responses.
Issued == DOMAIN created

\* Ids a caller can name: those, 0 and -1.
Known == {id \in PathIds : id <= 0 \/ id \in Issued}

\* The caller "c1" may send a request: at most MaxBurst in one window.
Burst == hits["c1"] < MaxBurst

\* The service with one request at a time, every kind of input.
Next ==
  \/ ConnectOk
  \/ ConnectFail
  \/ \E ip \in Callers : WindowElapse(ip)
  \/ \E q \in Queries : Burst /\ List(1, "c1", q)
  \/ \E id \in Known : Burst /\ GetById(1, "c1", id)
  \/ \E b \in CreateBodies : Burst /\ Create(1, "c1", b)
  \/ \E id \in Known, b \in UpdateBodies : Burst /\ Update(1, "c1", id, b)
  \/ \E id \in Known : Burst /\ Delete(1, "c1", id)
  \/ ListFind(1)
  \/ ListCount(1)
  \/ GetByIdFind(1)
  \/ CreateSave(1)
  \/ UpdateFind(1)
  \/ UpdateSave(1)
  \/ DeleteSettle(1)
  \/ Release(1)

Spec == Init /\ [][Next]_vars

\* The same, with persistence calls that may fail.
NextFault == Next \/ StoreFail(1)

SpecFault == Init /\ [][NextFault]_vars

\* A request takes the lowest free slot (the slots are interchangeable).
Free(r) == req[r].pc = "idle" /\ \A r2 \in Slots : r2 < r => req[r2].pc # "idle"

RaceQueries == {MkQuery(TRUE, p, TRUE, l) : p \in {<<"1">>, <<"2">>}, l \in {<<"1">>, <<"2">>}}
RaceCreates == {MkBody(TRUE, Ann, TRUE, AnnMail)}
RaceUpdates == {MkBody(TRUE, New, FALSE, Empty), MkBody(FALSE, Empty, TRUE, NewMail),
                MkBody(TRUE, Empty, TRUE, NewMail)}

\* Requests in flight together, on records that exist or existed.
NextRace ==
  \/ ConnectOk
  \/ \E ip \in Callers : WindowElapse(ip)
  \/ \E r \in Slots, id \in Issued : Burst /\ Free(r) /\ GetById(r, "c1", id)
  \/ \E r \in Slots, b \in RaceCreates :
        Burst /\ Free(r) /\ nextId <= RaceIds /\ Create(r, "c1", b)
  \/ \E r \in Slots, id \in Issued, b \in RaceUpdates :
        Burst /\ Free(r) /\ Update(r, "c1", id, b)
  \/ \E r \in Slots, id \in Issued : Burst /\ Free(r) /\ Delete(r, "c1", id)
  \/ \E r \in Slots : GetByIdFind(r)
  \/ \E r \in Slots : CreateSave(r)
  \/ \E r \in Slots : UpdateFind(r)
  \/ \E r \in Slots : UpdateSave(r)
  \/ \E r \in Slots : UpdateSaveGone(r)
  \/ \E r \in Slots : DeleteSettle(r)
  \/ \E r \in Slots : Release(r)

SpecRace == Init /\ [][NextRace]_vars

\* A List in flight together with requests that add and remove records.
NextList ==
  \/ ConnectOk
  \/ \E ip \in Callers : WindowElapse(ip)
  \/ \E r \in Slots, q \in RaceQueries : Burst /\ Free(r) /\ List(r, "c1", q)
  \/ \E r \in Slots, b \in RaceCreates : Burst /\ Free(r) /\ Create(r, "c1", b)
  \/ \E r \in Slots, id \in Issued : Burst /\ Free(r) /\ Delete(r, "c1", id)
  \/ \E r \in Slots : ListFind(r)
  \/ \E r \in Slots : ListCount(r)
  \/ \E r \in Slots : CreateSave(r)
  \/ \E r \in Slots : DeleteSettle(r)
  \/ \E r \in Slots : Release(r)

SpecList == Init /\ [][NextList]_vars

\* The limiter at its real threshold: two callers, one request at a time.
NextLimiter ==
  \/ ConnectOk
  \/ \E ip \in Callers : WindowElapse(ip)
  \/ \E ip \in Callers : hits[ip] < max + MaxOver /\ GetById(1, ip, 0)
  \/ GetByIdFind(1)
  \/ Release(1)

SpecLimiter == Init /\ [][NextLimiter]_vars

----------------------------------------------------------------------------
(* Properties *)

Done(r) == req[r].pc = "done"

Absent(body, f) == f \notin DOMAIN body

\* What the callers' texts denote.
ValidEmails == {AnnMail, NewMail}
Denotes(raw) ==
  CASE raw = <<"0">> -> 0 [] raw = <<"1">> -> 1 [] raw = <<"2">> -> 2
    [] raw = <<"-", "1">> -> -1

EmailFails(body) == Absent(body, "email") \/ body.email \notin ValidEmails
NameFails(body) == Absent(body, "name") \/ body.name = Empty
Failing(body) ==
  (IF EmailFails(body) THEN {"email"} ELSE {}) \cup (IF NameFails(body) THEN {"name"} ELSE {})

\* C1: a Create whose body fails validation is answered 400 with exactly one
\* violation entry per failing field (email, name or both), makes no
\* persistence call and leaves the stored users as they were.
C1_InvalidCreateRejected ==
  \A r \in Slots :
    LET rq == req[r]
    IN (rq.op = "Create" /\ Failing(rq.body) # {}) =>
         /\ Done(r)
         /\ rq.status = 400
         /\ Len(rq.out) = Cardinality(Failing(rq.body))
         /\ {rq.out[i].param : i \in 1..Len(rq.out)} = Failing(rq.body)
         /\ rq.calls = 0
         /\ ~rq.wrote

\* C1: a Create with neither field valid has been answered.
C1_Witness ==
  \E r \in Slots :
    /\ req[r].op = "Create"
    /\ Failing(req[r].body) = {"name", "email"}
    /\ req[r].status = 400
    /\ store # << >>

\* C2: an Update answered 200 leaves each field that its payload omits or
\* gives as empty at the value the store held right before the save,
\* whatever other Updates of the record were saved since it was loaded.
C2_UpdatePreservesUnsupplied ==
  \A r \in Slots :
    LET rq == req[r]
    IN (rq.op = "Update" /\ Done(r) /\ rq.status = 200 /\ rq.pre # NoDoc) =>
         /\ rq.post # NoDoc
         /\ \A f \in Fields :
              (Absent(rq.body, f) \/ rq.body[f] = Empty) => rq.post[f] = rq.pre[f]

\* C2: an Update of the name alone was saved after another Update had
\* changed the e-mail address it had loaded.
C2_Witness ==
  \E r \in Slots :
    /\ req[r].op = "Update" /\ Done(r) /\ req[r].status = 200
    /\ Absent(req[r].body, "email")
    /\ req[r].pre # NoDoc
    /\ req[r].out.email # req[r].pre.email
    /\ req[r].post.name # req[r].pre.name

\* C3: once a Delete of an id was answered 204, every GetById of the id that
\* starts later is answered 404 and no record with the id is stored again,
\* also when an Update that loaded the record earlier saves it later.
C3_DeletedStaysDeleted ==
  /\ \A r \in Slots :
       (req[r].op = "GetById" /\ Done(r) /\ req[r].afterDel) => req[r].status = 404
  /\ \A id \in deleted : ~Has(store, id)

\* C3: a GetById was answered after the Delete while an Update that had
\* loaded the record saved it after the Delete.
C3_Witness ==
  \E r1, r2 \in Slots :
    /\ req[r1].op = "GetById" /\ Done(r1) /\ req[r1].afterDel /\ req[r1].id > 0
    /\ req[r2].op = "Update" /\ Done(r2) /\ req[r2].late /\ req[r2].id = req[r1].id
    /\ req[r2].body = MkBody(TRUE, New, FALSE, Empty)

\* The records of s at offsets (page-1)*limit .. page*limit-1.
Offsets(s, page, limit) ==
  LET first == (page - 1) * limit
      n == IF Len(s) - first < 0 THEN 0 ELSE Min(limit, Len(s) - first)
  IN [i \in 1..n |-> s[first + i]]

IsCeil(k, total, limit) == k * limit >= total /\ (k - 1) * limit < total

ListAnswered(r) ==
  /\ req[r].op = "List" /\ Done(r) /\ req[r].status = 200
  /\ ~Absent(req[r].q, "page") /\ req[r].q.page \in {<<"1">>, <<"2">>}
  /\ ~Absent(req[r].q, "limit") /\ req[r].q.limit \in {<<"1">>, <<"2">>}

\* C4 as claimed: a List with page >= 1 and limit >= 1 answers with the
\* stored records at its page's offsets and with ceil(total/limit) pages of
\* one and the same store, also when records come and go between its find
\* and its count.
C4_AsClaimed ==
  \A r \in Slots :
    ListAnswered(r) =>
      LET rq == req[r]
          page == Denotes(rq.q.page)
          limit == Denotes(rq.q.limit)
      IN \E s \in {rq.seen, rq.counted} :
           /\ Len(rq.out.users) <= limit
           /\ rq.out.users = Offsets(s, page, limit)
           /\ rq.out.currentPage = page
           /\ IsCeil(rq.out.totalPages, Len(s), limit)

\* C4, amended: a List with page >= 1 and limit >= 1 answers with at most
\* limit users, the records stored at its page's offsets when find settled,
\* with currentPage = page, and with totalPages = ceil(total/limit) for the
\* number of users stored when the count settled.
C4_ListPage ==
  \A r \in Slots :
    ListAnswered(r) =>
      LET rq == req[r]
          page == Denotes(rq.q.page)
          limit == Denotes(rq.q.limit)
      IN /\ Len(rq.out.users) <= limit
         /\ rq.out.users = Offsets(rq.seen, page, limit)
         /\ rq.out.currentPage = page
         /\ IsCeil(rq.out.totalPages, Len(rq.counted), limit)

\* C4: a second page was answered while a record was added or removed
\* between the find and the count.
C4_Witness ==
  \E r \in Slots :
    /\ ListAnswered(r)
    /\ req[r].q.page = <<"2">>
    /\ req[r].out.users # << >>
    /\ req[r].seen # req[r].counted

NonNumeric(q, f) == Absent(q, f) \/ q[f] = <<"x">>

\* C5 as claimed: whatever page and limit the caller sends (absent,
\* non-numeric, zero or negative), a List is answered 200 when the store
\* does not fail; an absent or non-numeric page counts as 1 and an absent or
\* non-numeric limit as 10.
C5_AsClaimed ==
  \A r \in Slots :
    (req[r].op = "List" /\ Done(r)) =>
      /\ req[r].status = 200
      /\ NonNumeric(req[r].q, "page") => req[r].out.currentPage = 1
      /\ NonNumeric(req[r].q, "limit") => req[r].limit = 10

\* C6 as claimed: for an identifier without a stored record, well formed or
\* not, GetById is answered 404 and Delete 204, and neither changes the
\* stored users.
C6_AsClaimed ==
  \A r \in Slots :
    (Done(r) /\ req[r].op \in {"GetById", "Delete"} /\ req[r].id <= 0) =>
      /\ req[r].op = "GetById" => req[r].status = 404
      /\ req[r].op = "Delete" => req[r].status = 204
      /\ ~req[r].wrote

\* C7: in one window of a caller address its first 100 requests reach a
\* handler and its 101st and later ones are answered with the limiter's
\* message and make no persistence call; the count is the caller's own, and
\* starts again when its window has elapsed.
C7_RateLimit ==
  \A r \in Slots :
    LET rq == req[r]
    IN rq.pc # "idle" =>
         /\ rq.nth > 100 =>
              /\ Done(r) /\ rq.status = 429 /\ rq.msg = RateMessage /\ rq.calls = 0
         /\ rq.nth <= 100 => rq.status # 429 /\ rq.calls > 0

\* C7: the 101st request of a caller in its window was rejected while the
\* other caller had requests in its own window.
C7_Witness ==
  \E r \in Slots :
    /\ req[r].status = 429
    /\ req[r].nth = 101
    /\ req[r].ip = "c1"
    /\ sent["c2"] > 0

\* C8: a GetById of a created record that no Update or Delete has touched
\* is answered 200 with the record its Create returned; the stored records
\* have distinct ids.
C8_CreateThenGet ==
  /\ \A r \in Slots :
       (req[r].op = "GetById" /\ Done(r) /\ req[r].fresh) =>
         /\ req[r].status = 200
         /\ req[r].out = created[req[r].id]
         /\ req[r].out.id = req[r].id
  /\ \A i, j \in 1..Len(store) : store[i].id = store[j].id => i = j

\* C8: the second record was read back while the first is still stored.
C8_Witness ==
  \E r \in Slots :
    /\ req[r].op = "GetById" /\ Done(r) /\ req[r].fresh
    /\ req[r].id = 2
    /\ Len(store) = 2

\* C9: a request whose persistence call fails is answered 500 with the
\* operation's fixed message and not the error's detail, makes no further
\* call, and has not changed the stored users.
C9_FailureIs500 ==
  \A r \in Slots :
    LET rq == req[r]
    IN rq.err # "" =>
         /\ Done(r)
         /\ rq.status = 500
         /\ rq.msg = FailMessage(rq.op)
         /\ rq.msg # rq.err
         /\ rq.out = << >>
         /\ ~rq.wrote

\* C9: an Update's save failed after its load had succeeded.
C9_Witness ==
  \E r \in Slots :
    /\ req[r].op = "Update" /\ req[r].err = "MongoError" /\ req[r].calls = 2
    /\ req[r].status = 500

\* C10 as claimed: when the initial connection fails, no request was
\* accepted or handed to a handler before the process exits.
C10_AsClaimed ==
  proc = "exited" =>
    /\ \A r \in Slots : req[r].pc = "idle"
    /\ \A ip \in Callers : sent[ip] = 0

====
